---- MODULE Spec2Model ----
(***************************************************************************)
(* A model of the asdf-fd installer core (lib/lib.py, lib/plugins/fd.py).  *)
(*                                                                         *)
(* Python strings whose characters matter (tags, versions, file names,     *)
(* manifest lines) are sequences of one-character strings, so that         *)
(* lstrip/rstrip/endswith/split/in are computed character by character.    *)
(* Names that are only compared for equality (platform.system(), argv      *)
(* words, step names) are TLA+ strings.                                    *)
(***************************************************************************)
EXTENDS Integers, Sequences, FiniteSets, TLC

VARIABLES
    \* install_version (lib.py 142-231)
    pc, plugin_name, normalize_version, system, machine, format_kwargs,
    bin_path, tmp, written, artifact, manifest, verified, extracted, root,
    root0, log, requests, error,
    \* an upstream tag, as list_version sees it (fd round trip)
    tag,
    \* verify_checksum (lib.py 119-133)
    file_name, file_digest, checksum_lines, v_result,
    \* list_version (lib.py 70-92)
    releases, l_result,
    \* main (lib.py 234-256)
    argv, m_out

iVars == <<pc, plugin_name, normalize_version, system, machine, format_kwargs,
           bin_path, tmp, written, artifact, manifest, verified, extracted,
           root, root0, log, requests, error>>
fVars == <<tag>>
vVars == <<file_name, file_digest, checksum_lines, v_result>>
lVars == <<releases, l_result>>
mVars == <<argv, m_out>>
vars == <<iVars, fVars, vVars, lVars, mVars>>

----------------------------------------------------------------------------
(* Bounds of the model *)

MaxLines == 2       \* lines of a checksum manifest
MaxReleases == 11   \* releases in one API response
MaxArgs == 5        \* len(sys.argv)
MaxTagLen == 3      \* characters of an upstream tag

----------------------------------------------------------------------------
(* Python str operations, on sequences of characters *)

Min(a, b) == IF a <= b THEN a ELSE b

\* s.endswith(suf)
EndsWith(s, suf) ==
    /\ Len(s) >= Len(suf)
    /\ SubSeq(s, Len(s) - Len(suf) + 1, Len(s)) = suf

\* sub in s
Contains(s, sub) ==
    \E i \in 0..(Len(s) - Len(sub)) : SubSeq(s, i + 1, i + Len(sub)) = sub

\* s.lstrip(chars): drops every leading character that is in chars
RECURSIVE LStrip(_, _)
LStrip(s, chars) ==
    IF s # <<>> /\ Head(s) \in chars THEN LStrip(Tail(s), chars) ELSE s

\* s.rstrip(chars): drops every trailing character that is in chars
RECURSIVE RStrip(_, _)
RStrip(s, chars) ==
    IF s # <<>> /\ s[Len(s)] \in chars
    THEN RStrip(SubSeq(s, 1, Len(s) - 1), chars)
    ELSE s

Whitespace == {" ", "\n"}

\* s.split(): the whitespace-delimited tokens of s, none of them empty
RECURSIVE SplitFrom(_, _, _)
SplitFrom(s, cur, acc) ==
    IF s = <<>>
    THEN IF cur = <<>> THEN acc ELSE Append(acc, cur)
    ELSE IF Head(s) \in Whitespace
         THEN SplitFrom(Tail(s), <<>>, IF cur = <<>> THEN acc ELSE Append(acc, cur))
         ELSE SplitFrom(Tail(s), Append(cur, Head(s)), acc)

Split(s) == SplitFrom(s, <<>>, <<>>)

\* sep.join(xs)
RECURSIVE StrJoin(_, _)
StrJoin(sep, xs) ==
    IF xs = <<>> THEN <<>>
    ELSE IF Len(xs) = 1 THEN xs[1]
    ELSE xs[1] \o sep \o StrJoin(sep, Tail(xs))

\* list(reversed(xs))
Reversed(xs) == [i \in 1..Len(xs) |-> xs[Len(xs) + 1 - i]]

----------------------------------------------------------------------------
(* verify_checksum, lib.py 119-133 *)

\* A faulty variant: the loop without its break keeps the last matching line.
RECURSIVE FindExpectedLast(_, _)
FindExpectedLast(lines, name) ==
    IF lines = <<>> THEN [found |-> FALSE, raised |-> FALSE, expected |-> <<>>]
    ELSE LET rest == FindExpectedLast(Tail(lines), name) IN
         IF rest.found \/ ~Contains(Head(lines), name) \/ Split(Head(lines)) = <<>>
         THEN rest
         ELSE [found |-> TRUE, raised |-> FALSE, expected |-> Split(Head(lines))[1]]

\* The for loop of lines 122-125: the first line containing the name sets
\* expected to its first token and breaks; None when no line matches.
RECURSIVE FindExpected(_, _)
FindExpected(lines, name) ==
    IF lines = <<>> THEN [found |-> FALSE, raised |-> FALSE, expected |-> <<>>]
    ELSE IF Contains(Head(lines), name)
         THEN IF Split(Head(lines)) = <<>>
              THEN [found |-> FALSE, raised |-> TRUE, expected |-> <<>>]
              ELSE [found |-> TRUE, raised |-> FALSE,
                    expected |-> Split(Head(lines))[1]]
         ELSE FindExpected(Tail(lines), name)

\* What `shasum -a 256 <path>` (or sha256sum) prints for a file whose
\* SHA-256 hex digest is digest: "<digest>  <path>\n".
ShasumStdout(digest, name) == digest \o <<" ", " ">> \o name \o <<"\n">>

\* A faulty variant: a manifest without an entry passes instead of raising.
verify_checksum_lenient(name, digest, lines) ==
    LET e == FindExpected(lines, name) IN
    IF e.raised THEN "IndexError"
    ELSE IF ~e.found \/ e.expected = <<>> THEN "True"
    ELSE IF Split(ShasumStdout(digest, name))[1] = e.expected THEN "True" ELSE "False"

\* verify_checksum(file_path, checksum_path): "True", "False", or the
\* exception it raises.
verify_checksum(name, digest, lines) ==
    LET e == FindExpected(lines, name) IN
    IF e.raised THEN "IndexError"
    ELSE IF ~e.found \/ e.expected = <<>> THEN "ChecksumNotFound"
    ELSE IF Split(ShasumStdout(digest, name))[1] = e.expected THEN "True" ELSE "False"

----------------------------------------------------------------------------
(* list_version, lib.py 70-92 *)

\* datetime.strptime(x["published_at"], "%Y-%m-%dT%H:%M:%SZ") yields the fields
\* <<year, month, day, hour, minute, second>>; datetimes compare field by
\* field, most significant first.
DtLess(a, b) ==
    \E i \in 1..Len(a) : a[i] < b[i] /\ \A j \in 1..(i - 1) : a[j] = b[j]

\* sorted(..., key=published_at, reverse=True) is stable: an element goes
\* after every element whose key is not smaller than its own.
RECURSIVE InsertDesc(_, _)
InsertDesc(sorted, x) ==
    IF sorted = <<>> THEN <<x>>
    ELSE IF DtLess(Head(sorted).published_at, x.published_at)
         THEN <<x>> \o sorted
         ELSE <<Head(sorted)>> \o InsertDesc(Tail(sorted), x)

RECURSIVE SortFrom(_, _)
SortFrom(rest, acc) ==
    IF rest = <<>> THEN acc ELSE SortFrom(Tail(rest), InsertDesc(acc, Head(rest)))

SortedDesc(rs) == SortFrom(rs, <<>>)

\* sorted_releases[:10]
RecentCount == 10

\* release["tag_name"].lstrip("v"), also get_normalize_version
NormalizeTag(t) == LStrip(t, {"v"})

\* A faulty variant: the cut to ten taken before the sort.
RecentVersionsUnsorted(rs) ==
    LET recent == SubSeq(rs, 1, Min(RecentCount, Len(rs)))
        sorted == SortedDesc(recent)
    IN  Reversed([i \in 1..Len(sorted) |-> NormalizeTag(sorted[i].tag_name)])

\* Lines 78-87: the versions list before it is joined.
RecentVersions(rs) ==
    LET sorted == SortedDesc(rs)
        recent == SubSeq(sorted, 1, Min(RecentCount, Len(sorted)))
    IN  Reversed([i \in 1..Len(recent) |-> NormalizeTag(recent[i].tag_name)])

\* Line 89: "\n".join(versions)
list_version(rs) == StrJoin(<<"\n">>, RecentVersions(rs))

\* The timestamps a release may carry.
PublishedAts == { <<2023, 12, 31, 23, 59, 59>>, <<2024, 1, 2, 0, 0, 0>> }

\* The tag of the i-th release of a response: no "v", one "v" or two.  The last
\* character makes every tag of a response distinct.
TagChars == <<"0", "1", "2", "3", "4", "5", "6", "7", "8", "9", "a", "b", "c", "d", "e", "f">>

TagOf(i) ==
    LET body == <<"1", ".", TagChars[((i - 1) % Len(TagChars)) + 1]>> IN
    IF i % 3 = 1 THEN <<"v">> \o body
    ELSE IF i % 3 = 2 THEN body
    ELSE <<"v", "v">> \o body

ListIdle == releases = <<>> /\ l_result = [status |-> "idle", out |-> <<>>]

ListInit == releases = <<>> /\ l_result = [status |-> "pending", out |-> <<>>]

\* The upstream API's answer grows by one release.
AddRelease ==
    /\ l_result.status = "pending"
    /\ Len(releases) < MaxReleases
    /\ \E t \in PublishedAts :
          releases' = Append(releases,
                             [tag_name |-> TagOf(Len(releases) + 1), published_at |-> t])
    /\ UNCHANGED <<l_result, iVars, fVars, vVars, mVars>>

\* list_version returns.
ListVersion ==
    /\ l_result.status = "pending"
    /\ l_result' = [status |-> "ok", out |-> list_version(releases)]
    /\ UNCHANGED <<releases, iVars, fVars, vVars, mVars>>

\* urlopen raises URLError: lines 91-92.
ListVersionFails ==
    /\ l_result.status = "pending"
    /\ l_result' = [status |-> "get version failed", out |-> <<>>]
    /\ UNCHANGED <<releases, iVars, fVars, vVars, mVars>>

----------------------------------------------------------------------------
(* main, lib.py 234-256 *)

ArgWords == {"list", "install", "fd", "x"}

MainIdle == argv = <<>> /\ m_out = [status |-> "idle"]

MainPending == [status |-> "pending"]

\* sys.exit(1) after a usage message: lines 236-239, 248-249, 254-256.
UsageExit == [status |-> "done", exit |-> 1, usage |-> TRUE, called |-> "none", args |-> <<>>]

\* The process's exit code once the called function returned or raised.
Returned(fn, args, ok) ==
    [status |-> "done", exit |-> IF ok THEN 0 ELSE 1, usage |-> FALSE,
     called |-> fn, args |-> args]

\* os.path.abspath(p)
AbsPath(p) == <<"abspath", p>>

main(av, ok) ==
    IF Len(av) < 3 THEN UsageExit
    ELSE IF av[2] = "list" THEN Returned("list_version", <<av[3]>>, ok)
    ELSE IF av[2] = "install"
         THEN IF Len(av) # 5 THEN UsageExit
              ELSE Returned("install_version", <<av[3], av[4], AbsPath(av[5])>>, ok)
    ELSE UsageExit

MainInit ==
    /\ argv \in UNION { [1..n -> ArgWords \cup {"lib.py"}] : n \in 1..MaxArgs }
    /\ argv[1] = "lib.py"
    /\ m_out = MainPending

\* One run of main; ok says whether the called function returns normally.
Main ==
    /\ m_out.status = "pending"
    /\ \E ok \in BOOLEAN : m_out' = main(argv, ok)
    /\ UNCHANGED <<argv, iVars, fVars, vVars, lVars>>

----------------------------------------------------------------------------
(* Plugin descriptors: the Plugin dataclass, lib.py 34-45 *)

\* A str template is its literal pieces and {field} placeholders in order; a
\* callable template is named by the function it calls.
Lit(c) == [lit |-> c]
Field(f) == [field |-> f]
StrTemplate(parts) == [kind |-> "str", parts |-> parts, fn |-> "none"]
FnTemplate(fn) == [kind |-> "fn", parts |-> <<>>, fn |-> fn]

\* The dataclass defaults: "" for a template, None for a map.
EmptyTemplate == StrTemplate(<<>>)
NoMap == [k \in {} |-> <<>>]

\* bool(template): a callable is true, a str is true unless empty.
Truthy(template) == template.kind = "fn" \/ template.parts # <<>>

\* A faulty variant: one character more than the set allows is dropped.
FdBinPathShort(kw) ==
    LET stem == RStrip(kw.filename, {".", "t", "a", "r", "g", "z"}) IN
    SubSeq(stem, 1, Len(stem) - 1) \o <<"/", "f", "d">>

\* fd.py 16: lambda kwargs: f"{kwargs['filename'].rstrip('.tar.gz')}/fd"
FdBinPath(kw) == RStrip(kw.filename, {".", "t", "a", "r", "g", "z"}) \o <<"/", "f", "d">>

\* fd.py 7-17
FdPlugin ==
    [name |-> <<"f", "d">>, cmd |-> <<"f", "d">>, repo_name |-> <<"s", "h", "a", "r", "k", "d", "p", "/", "f", "d">>,
     filename_template |->
        StrTemplate(<<Lit(<<"f", "d", "-">>), Field("version"), Lit(<<"-">>), Field("arch"),
                      Lit(<<"-">>), Field("platform"), Lit(<<".", "t", "a", "r", ".", "g", "z">>)>>),
     checksum_filename_template |-> EmptyTemplate,
     bin_path |-> FnTemplate("fd_bin_path"),
     platform_map |-> [darwin |-> <<"a", "p", "p", "l", "e", "-", "d", "a", "r", "w", "i", "n">>, linux |-> <<"u", "n", "k", "n", "o", "w", "n", "-", "l", "i", "n", "u", "x", "-", "g", "n", "u">>],
     arch_map |-> NoMap,
     recover_raw_version |-> "identity",
     custom_copy |-> FALSE]

\* Descriptors the dataclass admits besides fd: a tar.gz with a checksum
\* manifest, a raw .gz, a .zip, and one with a custom_copy.
TgzPlugin ==
    [name |-> <<"t">>, cmd |-> <<"t">>, repo_name |-> <<"o", "/", "t">>,
     filename_template |-> StrTemplate(<<Lit(<<"t", "-">>), Field("version"), Lit(<<".", "t", "a", "r", ".", "g", "z">>)>>),
     checksum_filename_template |-> StrTemplate(<<Field("filename"), Lit(<<".", "s", "u", "m">>)>>),
     bin_path |-> StrTemplate(<<Lit(<<"t", "-">>), Field("version"), Lit(<<"/", "t">>)>>),
     platform_map |-> NoMap, arch_map |-> NoMap,
     recover_raw_version |-> "identity", custom_copy |-> FALSE]

GzPlugin ==
    [name |-> <<"g">>, cmd |-> <<"g">>, repo_name |-> <<"o", "/", "g">>,
     filename_template |-> StrTemplate(<<Lit(<<"g", "-">>), Field("arch"), Lit(<<".", "g", "z">>)>>),
     checksum_filename_template |-> EmptyTemplate,
     bin_path |-> StrTemplate(<<Lit(<<"g">>)>>),
     platform_map |-> [linux |-> <<"l", "i", "n", "u", "x">>],
     arch_map |-> [x86_64 |-> <<"x", "6", "4">>, aarch64 |-> <<"a", "6", "4">>],
     recover_raw_version |-> "identity", custom_copy |-> FALSE]

ZipPlugin ==
    [name |-> <<"z">>, cmd |-> <<"z">>, repo_name |-> <<"o", "/", "z">>,
     filename_template |-> StrTemplate(<<Lit(<<"z", "-">>), Field("version"), Lit(<<".", "z", "i", "p">>)>>),
     checksum_filename_template |-> StrTemplate(<<Lit(<<"s", "u", "m", "s">>)>>),
     bin_path |-> StrTemplate(<<Lit(<<"z">>)>>),
     platform_map |-> NoMap, arch_map |-> NoMap,
     recover_raw_version |-> "identity", custom_copy |-> FALSE]

CcPlugin ==
    [name |-> <<"c">>, cmd |-> <<"c">>, repo_name |-> <<"o", "/", "c">>,
     filename_template |-> StrTemplate(<<Lit(<<"c", ".", "t", "a", "r", ".", "g", "z">>)>>),
     checksum_filename_template |-> EmptyTemplate,
     bin_path |-> EmptyTemplate,
     platform_map |-> NoMap, arch_map |-> NoMap,
     recover_raw_version |-> "identity", custom_copy |-> TRUE]

\* The files lib/plugins/<plugin_name>.py that exist.
PluginNames == {"fd", "tgz", "gz", "zip", "cc"}

\* get_plugin, lib.py 48-60, for a plugin whose file exists.
get_plugin(n) ==
    CASE n = "fd" -> FdPlugin
      [] n = "tgz" -> TgzPlugin
      [] n = "gz" -> GzPlugin
      [] n = "zip" -> ZipPlugin
      [] n = "cc" -> CcPlugin

----------------------------------------------------------------------------
(* get_system_info, lib.py 95-112 *)

\* str.lower() on the names platform.system() and platform.machine() give.
Lower(s) ==
    CASE s = "Darwin" -> "darwin"
      [] s = "Linux" -> "linux"
      [] s = "Windows" -> "windows"
      [] s = "AMD64" -> "amd64"
      [] OTHER -> s

get_system_info(sys, mach) ==
    LET s == Lower(sys)
        m == Lower(mach)
    IN  IF s \notin {"darwin", "linux"}
        THEN [ok |-> FALSE, error |-> "Unsupported platform", plat |-> "", arch |-> ""]
        ELSE IF m \in {"x86_64", "amd64"}
             THEN [ok |-> TRUE, error |-> "", plat |-> s, arch |-> "x86_64"]
        ELSE IF m \in {"arm64", "aarch64"}
             THEN [ok |-> TRUE, error |-> "", plat |-> s, arch |-> "aarch64"]
        ELSE [ok |-> FALSE, error |-> "Unsupported architecture", plat |-> "", arch |-> ""]

\* The characters of a canonical platform or architecture token.
TokenChars ==
    [darwin |-> <<"d", "a", "r", "w", "i", "n">>, linux |-> <<"l", "i", "n", "u", "x">>,
     x86_64 |-> <<"x", "8", "6", "_", "6", "4">>, aarch64 |-> <<"a", "a", "r", "c", "h", "6", "4">>]

----------------------------------------------------------------------------
(* format_template and the format context, lib.py 136-173 *)

\* template.format(**format_kwargs) for a str template.
RECURSIVE Format(_, _)
Format(parts, kw) ==
    IF parts = <<>> THEN <<>>
    ELSE (IF "field" \in DOMAIN Head(parts)
          THEN kw[Head(parts).field]
          ELSE Head(parts).lit) \o Format(Tail(parts), kw)

format_template(template, kw) ==
    IF template.kind = "fn"
    THEN CASE template.fn = "fd_bin_path" -> FdBinPath(kw)
    ELSE Format(template.parts, kw)

\* plugin.recover_raw_version(normalize_version); the default is lambda x: x.
recover_raw_version(p, nv) ==
    CASE p.recover_raw_version = "identity" -> nv

\* Lines 146-147: a map that is None or empty leaves the token as it is; a
\* map without the key raises KeyError.
MapMissesKey(map, key) == DOMAIN map # {} /\ key \notin DOMAIN map
Mapped(map, key) == IF DOMAIN map # {} THEN map[key] ELSE TokenChars[key]

\* Lines 149-160
InitialKwargs(p, plat, arch, nv) ==
    [name |-> p.name, repo_name |-> p.repo_name,
     version |-> recover_raw_version(p, nv),
     normalize_version |-> nv,
     platform |-> Mapped(p.platform_map, plat),
     arch |-> Mapped(p.arch_map, arch),
     filename |-> <<>>, checksum_filename |-> <<>>]

\* BINARY_URL.format(**kw) and CHECKSUM_URL.format(**kw), lib.py 63-67: the
\* URL is known by the three fields its pattern takes.
BinaryUrl(kw) == [repo_name |-> kw.repo_name, version |-> kw.version, file |-> kw.filename]
ChecksumUrl(kw) ==
    [repo_name |-> kw.repo_name, version |-> kw.version, file |-> kw.checksum_filename]

----------------------------------------------------------------------------
(* install_version, lib.py 142-231: the state of one run *)

\* The steps of a run, as log records them.  pc names the step to run next,
\* or "start", "mkdir", "copy", "chmod" (inside placement), "done", "failed".
Steps == {"filename", "checksum_filename", "bin_path", "tmp", "download",
          "download_checksum", "verify", "extract", "place"}

\* A faulty variant: the temporary directory made before the templates are resolved.
AfterStepTmpFirst(step, p) ==
    CASE step = "filename" -> "checksum_filename"
      [] step = "checksum_filename" -> "tmp"
      [] step = "tmp" -> "bin_path"
      [] step = "bin_path" -> "download"
      [] step = "download" ->
            IF Truthy(p.checksum_filename_template) THEN "download_checksum" ELSE "extract"
      [] step = "download_checksum" -> "verify"
      [] step = "verify" -> "extract"
      [] step = "extract" -> "place"

\* The statement order of lines 162-229: the step that follows a step that
\* did not raise.  Line 183 skips the checksum steps for a false template.
AfterStep(step, p) ==
    CASE step = "filename" -> "checksum_filename"
      [] step = "checksum_filename" -> "bin_path"
      [] step = "bin_path" -> "tmp"
      [] step = "tmp" -> "download"
      [] step = "download" ->
            IF Truthy(p.checksum_filename_template) THEN "download_checksum" ELSE "extract"
      [] step = "download_checksum" -> "verify"
      [] step = "verify" -> "extract"
      [] step = "extract" -> "place"

\* A faulty variant: a directory made with mkdtemp and never removed.
ExitWithLeak(t) == t

\* Leaving the `with tempfile.TemporaryDirectory()` block of line 175, by its
\* end or by an exception: the directory is removed.
ExitWith(t) == "removed"

\* tmp_path / rel (pathlib): an absolute rel replaces tmp_path.
TmpPath(rel) ==
    IF rel # <<>> /\ rel[1] = "/"
    THEN [root |-> "abs", path |-> rel]
    ELSE [root |-> "tmp", path |-> rel]

HasSlash(s) == \E i \in 1..Len(s) : s[i] = "/"

\* Path.name: what follows the last "/".
RECURSIVE PathName(_)
PathName(s) ==
    IF ~HasSlash(s) THEN s
    ELSE PathName(Tail(s))

\* A faulty variant: the .gz test made first, so that a .tar.gz is gunzipped.
ArchiveKindGzFirst(filename) ==
    IF EndsWith(filename, <<".", "g", "z">>) THEN "gzip"
    ELSE IF EndsWith(filename, <<".", "t", "a", "r", ".", "g", "z">>) THEN "tar"
    ELSE "unsupported"

\* The suffix dispatch of lines 202-213.
ArchiveKind(filename) ==
    IF EndsWith(filename, <<".", "t", "a", "r", ".", "g", "z">>) THEN "tar"
    ELSE IF EndsWith(filename, <<".", "g", "z">>) THEN "gzip"
    ELSE "unsupported"

\* A faulty variant: the mode copy2 carried over is kept.
InstalledModeKept(srcmode) == srcmode

\* dst.chmod(0o755), line 226
InstalledMode(srcmode) == "0o755"

----------------------------------------------------------------------------
(* What the run meets outside: the host, the release server, the disk *)

Systems == {"Darwin", "Linux", "Windows"}
Machines == {"AMD64", "arm64", "i386"}
Versions == { <<"1">>, <<"1", "/", "2">> }

D1 == <<"d", "1">>
D2 == <<"d", "2">>

\* What a download URL may serve: a tar.gz with the binary at bin_path (mode
\* 0o755 or 0o644) or without it, a tar.gz with a member that leaves the
\* destination, a gzip of one file, or something that is no gzip at all.
Artifacts ==
    { [kind |-> "tar", has_bin |-> TRUE, mode |-> "0o755", digest |-> D1],
      [kind |-> "tar", has_bin |-> TRUE, mode |-> "0o644", digest |-> D2],
      [kind |-> "tar", has_bin |-> FALSE, mode |-> "0o644", digest |-> D1],
      [kind |-> "tar_escape", has_bin |-> TRUE, mode |-> "0o755", digest |-> D1],
      [kind |-> "gz", has_bin |-> TRUE, mode |-> "0o644", digest |-> D1],
      [kind |-> "junk", has_bin |-> FALSE, mode |-> "0o644", digest |-> D2] }

NoArtifact == [kind |-> "none", has_bin |-> FALSE, mode |-> "none", digest |-> <<>>]

ManifestLine(d, n) == d \o <<" ", " ">> \o n \o <<"\n">>

\* The manifests a checksum URL may serve for a file called n.
ManifestsFor(n) ==
    { <<>>,
      << ManifestLine(D1, n) >>,
      << ManifestLine(D2, n) >>,
      << ManifestLine(D1, <<"o", "t", "h", "e", "r">>) >>,
      << ManifestLine(D2, n \o <<".", "s", "i", "g">>), ManifestLine(D1, n) >> }

NoFile == [present |-> FALSE, content |-> "none", mode |-> "none"]
OldFile == [present |-> TRUE, content |-> "old", mode |-> "0o755"]

\* installRoot before the run: empty, with a bin directory, or with an
\* earlier installation.
InitialRoots ==
    { [bin |-> FALSE, file |-> NoFile],
      [bin |-> TRUE, file |-> NoFile],
      [bin |-> TRUE, file |-> OldFile] }

\* What a custom_copy may leave under installRoot.
CustomRoots ==
    InitialRoots \cup
    { [bin |-> TRUE, file |-> [present |-> TRUE, content |-> "binary", mode |-> "0o644"]] }

EmptyKwargs ==
    [name |-> <<>>, repo_name |-> <<>>, version |-> <<>>, normalize_version |-> <<>>,
     platform |-> <<>>, arch |-> <<>>, filename |-> <<>>, checksum_filename |-> <<>>]

NoExtract == [how |-> "none", paths |-> {}, mode |-> "none"]

InstallIdle ==
    /\ pc = "idle" /\ plugin_name = "none" /\ normalize_version = <<>>
    /\ system = "none" /\ machine = "none" /\ format_kwargs = EmptyKwargs
    /\ bin_path = <<>> /\ tmp = "none" /\ written = {} /\ artifact = NoArtifact
    /\ manifest = <<>> /\ verified = "none" /\ extracted = NoExtract
    /\ root = [bin |-> FALSE, file |-> NoFile] /\ root0 = root
    /\ log = <<>> /\ requests = <<>> /\ error = "none"

FdIdle == tag = <<>>

VerifyIdle ==
    file_name = <<>> /\ file_digest = <<>> /\ checksum_lines = <<>> /\ v_result = "idle"

InstallInit ==
    /\ pc = "start"
    /\ plugin_name \in PluginNames \cup {"nope"}
    /\ normalize_version \in Versions
    /\ system \in Systems
    /\ machine \in Machines
    /\ format_kwargs = EmptyKwargs
    /\ bin_path = <<>> /\ tmp = "none" /\ written = {} /\ artifact = NoArtifact
    /\ manifest = <<>> /\ verified = "none" /\ extracted = NoExtract
    /\ root \in InitialRoots /\ root0 = root
    /\ log = <<>> /\ requests = <<>> /\ error = "none"

\* What no step of install_version assigns.
iInputs == <<plugin_name, normalize_version, system, machine, root0>>
iOthers == <<fVars, vVars, lVars, mVars>>

\* An exception leaves install_version: nothing catches it, and the with
\* block, if entered, is left.
Raise(e) ==
    /\ pc' = "failed"
    /\ error' = e
    /\ tmp' = IF tmp = "exists" THEN ExitWith(tmp) ELSE tmp

\* The step ran to its end; the next statement runs.
Goto(next) == pc' = next /\ UNCHANGED <<error, tmp>>

\* The with block ends and line 231 prints.
Finish ==
    /\ pc' = "done"
    /\ tmp' = ExitWith(tmp)
    /\ UNCHANGED error

----------------------------------------------------------------------------
(* install_version, lib.py 142-231: its steps *)

\* Lines 143-160: the descriptor, the host, the context.
Setup ==
    /\ pc = "start"
    /\ \/ /\ plugin_name \notin PluginNames
          /\ Raise("Plugin config not found")
          /\ UNCHANGED format_kwargs
       \/ /\ plugin_name \in PluginNames
          /\ ~get_system_info(system, machine).ok
          /\ Raise(get_system_info(system, machine).error)
          /\ UNCHANGED format_kwargs
       \/ /\ plugin_name \in PluginNames
          /\ get_system_info(system, machine).ok
          /\ LET p == get_plugin(plugin_name)
                 si == get_system_info(system, machine)
             IN  \/ MapMissesKey(p.platform_map, si.plat)
                 \/ MapMissesKey(p.arch_map, si.arch)
          /\ Raise("KeyError")
          /\ UNCHANGED format_kwargs
       \/ /\ plugin_name \in PluginNames
          /\ get_system_info(system, machine).ok
          /\ LET p == get_plugin(plugin_name)
                 si == get_system_info(system, machine)
             IN  /\ ~MapMissesKey(p.platform_map, si.plat)
                 /\ ~MapMissesKey(p.arch_map, si.arch)
                 /\ format_kwargs' = InitialKwargs(p, si.plat, si.arch, normalize_version)
          /\ Goto("filename")
    /\ UNCHANGED <<bin_path, written, artifact, manifest, verified, extracted, root,
                   log, requests, iInputs, iOthers>>

\* Lines 162-163
ResolveFilename ==
    /\ pc = "filename"
    /\ LET p == get_plugin(plugin_name) IN
          /\ format_kwargs' =
                [format_kwargs EXCEPT
                    !.filename = format_template(p.filename_template, format_kwargs)]
          /\ Goto(AfterStep("filename", p))
    /\ log' = Append(log, "filename")
    /\ UNCHANGED <<bin_path, written, artifact, manifest, verified, extracted, root,
                   requests, iInputs, iOthers>>

\* Lines 164-167
ResolveChecksumFilename ==
    /\ pc = "checksum_filename"
    /\ LET p == get_plugin(plugin_name) IN
          /\ format_kwargs' =
                [format_kwargs EXCEPT
                    !.checksum_filename =
                        format_template(p.checksum_filename_template, format_kwargs)]
          /\ Goto(AfterStep("checksum_filename", p))
    /\ log' = Append(log, "checksum_filename")
    /\ UNCHANGED <<bin_path, written, artifact, manifest, verified, extracted, root,
                   requests, iInputs, iOthers>>

\* Line 169
ResolveBinPath ==
    /\ pc = "bin_path"
    /\ LET p == get_plugin(plugin_name) IN
          /\ bin_path' = format_template(p.bin_path, format_kwargs)
          /\ Goto(AfterStep("bin_path", p))
    /\ log' = Append(log, "bin_path")
    /\ UNCHANGED <<format_kwargs, written, artifact, manifest, verified, extracted,
                   root, requests, iInputs, iOthers>>

\* Line 175: the with block is entered.
CreateTmp ==
    /\ pc = "tmp"
    /\ tmp' = "exists"
    /\ pc' = AfterStep("tmp", get_plugin(plugin_name))
    /\ log' = Append(log, "tmp")
    /\ UNCHANGED <<error, format_kwargs, bin_path, written, artifact, manifest, verified,
                   extracted, root, requests, iInputs, iOthers>>

\* Lines 177-181: one GET of the binary URL, written to tmp_path / filename.
\* write_bytes creates no directory: a filename with a "/" has no parent
\* directory to be written in.
DownloadArtifact ==
    /\ pc = "download"
    /\ requests' = Append(requests, BinaryUrl(format_kwargs))
    /\ log' = Append(log, "download")
    /\ \/ /\ Raise("URLError")
          /\ UNCHANGED <<written, artifact>>
       \/ \E a \in Artifacts :
             IF HasSlash(format_kwargs.filename)
             THEN /\ Raise("FileNotFoundError")
                  /\ UNCHANGED <<written, artifact>>
             ELSE /\ artifact' = a
                  /\ written' = written \cup {TmpPath(format_kwargs.filename)}
                  /\ Goto(AfterStep("download", get_plugin(plugin_name)))
    /\ UNCHANGED <<format_kwargs, bin_path, manifest, verified, extracted, root,
                   iInputs, iOthers>>

\* Lines 184-191: one GET of the checksum URL, written beside the archive.
DownloadChecksum ==
    /\ pc = "download_checksum"
    /\ requests' = Append(requests, ChecksumUrl(format_kwargs))
    /\ log' = Append(log, "download_checksum")
    /\ \/ /\ Raise("URLError")
          /\ UNCHANGED <<written, manifest>>
       \/ \E m \in ManifestsFor(PathName(format_kwargs.filename)) :
             IF HasSlash(format_kwargs.checksum_filename)
             THEN /\ Raise("FileNotFoundError")
                  /\ UNCHANGED <<written, manifest>>
             ELSE /\ manifest' = m
                  /\ written' = written \cup {TmpPath(format_kwargs.checksum_filename)}
                  /\ Goto(AfterStep("download_checksum", get_plugin(plugin_name)))
    /\ UNCHANGED <<format_kwargs, bin_path, artifact, verified, extracted, root,
                   iInputs, iOthers>>

\* Lines 193-197
Verify ==
    /\ pc = "verify"
    /\ log' = Append(log, "verify")
    /\ LET r == verify_checksum(PathName(format_kwargs.filename), artifact.digest, manifest)
       IN  \/ /\ r = "True"
              /\ verified' = "True"
              /\ Goto(AfterStep("verify", get_plugin(plugin_name)))
           \/ /\ r = "False"
              /\ verified' = "False"
              /\ Raise("Checksum verification failed")
           \/ /\ r \notin {"True", "False"}
              /\ UNCHANGED verified
              /\ Raise(r)
    /\ UNCHANGED <<format_kwargs, bin_path, written, artifact, manifest, extracted,
                   root, requests, iInputs, iOthers>>

\* Lines 199-213: tarfile.extractall(filter="data") writes members under
\* extract/ and raises on a member that would leave it; gzip writes one file
\* at extract / bin_path.
Extract ==
    /\ pc = "extract"
    /\ log' = Append(log, "extract")
    /\ LET kind == ArchiveKind(format_kwargs.filename)
           bin == <<"e", "x", "t", "r", "a", "c", "t", "/">> \o bin_path
           other == <<"e", "x", "t", "r", "a", "c", "t", "/", "R", "E", "A", "D", "M", "E">>
       IN  \/ /\ kind = "tar"
              /\ artifact.kind = "tar"
              /\ extracted' = [how |-> "tar",
                               paths |-> IF artifact.has_bin THEN {bin, other} ELSE {other},
                               mode |-> artifact.mode]
              /\ written' = written \cup {TmpPath(q) : q \in extracted'.paths}
              /\ Goto(AfterStep("extract", get_plugin(plugin_name)))
           \/ /\ kind = "tar"
              /\ artifact.kind = "tar_escape"
              /\ extracted' = [how |-> "tar", paths |-> {other}, mode |-> artifact.mode]
              /\ written' = written \cup {TmpPath(other)}
              /\ Raise("FilterError")
           \/ /\ kind = "tar"
              /\ artifact.kind \in {"gz", "junk"}
              /\ extracted' = [how |-> "tar", paths |-> {}, mode |-> "none"]
              /\ UNCHANGED written
              /\ Raise("ReadError")
           \/ /\ kind = "gzip"
              /\ artifact.kind # "junk"
              /\ extracted' = [how |-> "gzip", paths |-> {bin}, mode |-> "0o644"]
              /\ written' = written \cup {TmpPath(bin)}
              /\ Goto(AfterStep("extract", get_plugin(plugin_name)))
           \/ /\ kind = "gzip"
              /\ artifact.kind = "junk"
              /\ extracted' = [how |-> "gzip", paths |-> {}, mode |-> "none"]
              /\ UNCHANGED written
              /\ Raise("BadGzipFile")
           \/ /\ kind = "unsupported"
              /\ UNCHANGED <<extracted, written>>
              /\ Raise("Unsupported file type")
    /\ UNCHANGED <<format_kwargs, bin_path, artifact, manifest, verified, root,
                   requests, iInputs, iOthers>>

\* Lines 215-219 and 227-229: the descriptor's custom_copy, trusted with
\* installRoot, or the existence test of the default copy.
Place ==
    /\ pc = "place"
    /\ log' = Append(log, "place")
    /\ \/ /\ get_plugin(plugin_name).custom_copy
          /\ \E r \in CustomRoots :
                /\ root' = r
                /\ \/ Finish
                   \/ Raise("custom_copy raised")
       \/ /\ ~get_plugin(plugin_name).custom_copy
          /\ (<<"e", "x", "t", "r", "a", "c", "t", "/">> \o bin_path) \notin extracted.paths
          /\ Raise("Binary file not found")
          /\ UNCHANGED root
       \/ /\ ~get_plugin(plugin_name).custom_copy
          /\ (<<"e", "x", "t", "r", "a", "c", "t", "/">> \o bin_path) \in extracted.paths
          /\ Goto("mkdir")
          /\ UNCHANGED root
    /\ UNCHANGED <<format_kwargs, bin_path, written, artifact, manifest, verified,
                   extracted, requests, iInputs, iOthers>>

\* Lines 221-222: dst.mkdir(parents=True, exist_ok=True)
Mkdir ==
    /\ pc = "mkdir"
    /\ \/ /\ root' = [root EXCEPT !.bin = TRUE]
          /\ Goto("copy")
       \/ /\ ~root.bin
          /\ UNCHANGED root
          /\ Raise("mkdir failed")
    /\ UNCHANGED <<format_kwargs, bin_path, written, artifact, manifest, verified,
                   extracted, log, requests, iInputs, iOthers>>

\* Line 225: shutil.copy2 copies the content, then the mode.  It may raise
\* before it opened the target, or with the target partly written.
Copy ==
    /\ pc = "copy"
    /\ \/ /\ root' = [root EXCEPT !.file = [present |-> TRUE, content |-> "binary",
                                           mode |-> extracted.mode]]
          /\ Goto("chmod")
       \/ /\ UNCHANGED root
          /\ Raise("copy failed")
       \/ /\ root' = [root EXCEPT !.file =
                        [present |-> TRUE, content |-> "partial",
                         mode |-> IF root.file.present THEN root.file.mode ELSE "0o644"]]
          /\ Raise("copy failed")
    /\ UNCHANGED <<format_kwargs, bin_path, written, artifact, manifest, verified,
                   extracted, log, requests, iInputs, iOthers>>

\* Line 226, then the end of the with block and line 231.
Chmod ==
    /\ pc = "chmod"
    /\ \/ /\ root' = [root EXCEPT !.file.mode = InstalledMode(root.file.mode)]
          /\ Finish
       \/ /\ UNCHANGED root
          /\ Raise("chmod failed")
    /\ UNCHANGED <<format_kwargs, bin_path, written, artifact, manifest, verified,
                   extracted, log, requests, iInputs, iOthers>>

InstallNext ==
    \/ Setup \/ ResolveFilename \/ ResolveChecksumFilename \/ ResolveBinPath
    \/ CreateTmp \/ DownloadArtifact \/ DownloadChecksum \/ Verify \/ Extract
    \/ Place \/ Mkdir \/ Copy \/ Chmod

InitInstall == InstallInit /\ FdIdle /\ VerifyIdle /\ ListIdle /\ MainIdle

SpecInstall == InitInstall /\ [][InstallNext]_vars

----------------------------------------------------------------------------
(* verify_checksum on its own: a file and a manifest *)

VNames == { <<"f", "d">>, <<"d">> }
VTokens == { <<"f", "d">>, <<"f", "d", ".", "s">>, D1, D2 }

\* Manifest lines: empty, one token, "<token>  <token>", and a token after
\* leading whitespace.
VLines ==
    { <<"\n">> }
    \cup { t \o <<"\n">> : t \in VTokens }
    \cup { ManifestLine(t, u) : t \in VTokens, u \in VTokens }
    \cup { <<" ">> \o t \o <<"\n">> : t \in VTokens }

VerifyInit ==
    /\ file_name \in VNames
    /\ file_digest \in {D1, D2}
    /\ checksum_lines \in UNION { [1..n -> VLines] : n \in 0..MaxLines }
    /\ v_result = "pending"

VerifyChecksum ==
    /\ v_result = "pending"
    /\ v_result' = verify_checksum(file_name, file_digest, checksum_lines)
    /\ UNCHANGED <<file_name, file_digest, checksum_lines, iVars, fVars, lVars, mVars>>

InitVerify == VerifyInit /\ InstallIdle /\ FdIdle /\ ListIdle /\ MainIdle

SpecVerify == InitVerify /\ [][VerifyChecksum]_vars

----------------------------------------------------------------------------
(* list_version and main on their own *)

InitList == ListInit /\ InstallIdle /\ FdIdle /\ VerifyIdle /\ MainIdle

ListNext == AddRelease \/ ListVersion \/ ListVersionFails

SpecList == InitList /\ [][ListNext]_vars

InitMain == MainInit /\ InstallIdle /\ FdIdle /\ VerifyIdle /\ ListIdle

SpecMain == InitMain /\ [][Main]_vars

----------------------------------------------------------------------------
(* The fd descriptor from an upstream tag to the resolved names: the tag is  *)
(* listed by list_version, and what was listed is installed.                 *)

TagAlphabet == {"v", "1", ".", "z"}
\* A tag names a version: it holds a digit.
Tags ==
    { t \in UNION { [1..n -> TagAlphabet] : n \in 1..MaxTagLen } :
        \E i \in 1..Len(t) : t[i] = "1" }

\* Either a tag is listed first and the printed line installed, or the
\* version comes straight from the command line.
FdInit ==
    /\ \/ tag \in Tags /\ pc = "list" /\ normalize_version = <<>>
       \/ tag = <<>> /\ pc = "start" /\ normalize_version \in Tags
    /\ plugin_name = "fd"
    /\ system \in {"Darwin", "Linux"}
    /\ machine \in {"x86_64", "AMD64", "arm64", "aarch64"}
    /\ format_kwargs = EmptyKwargs
    /\ bin_path = <<>> /\ tmp = "none" /\ written = {} /\ artifact = NoArtifact
    /\ manifest = <<>> /\ verified = "none" /\ extracted = NoExtract
    /\ root = [bin |-> FALSE, file |-> NoFile] /\ root0 = root
    /\ log = <<>> /\ requests = <<>> /\ error = "none"

\* `list fd` prints the tag as list_version normalizes it, and that line is
\* the version `install fd <version> <path>` is then given.
FdListVersion ==
    /\ pc = "list"
    /\ normalize_version' =
          list_version(<< [tag_name |-> tag, published_at |-> <<2024, 1, 2, 0, 0, 0>>] >>)
    /\ pc' = "start"
    /\ UNCHANGED <<plugin_name, system, machine, format_kwargs, bin_path, tmp, written,
                   artifact, manifest, verified, extracted, root, root0, log, requests,
                   error, iOthers>>

InitFd == FdInit /\ VerifyIdle /\ ListIdle /\ MainIdle

FdNext ==
    \/ FdListVersion \/ Setup \/ ResolveFilename \/ ResolveChecksumFilename
    \/ ResolveBinPath

SpecFd == InitFd /\ [][FdNext]_vars

----------------------------------------------------------------------------
(* Properties.  They read a manifest and a file name with definitions of     *)
(* their own, written from what a line is, not from how the code scans it.   *)

InLog(step) == \E i \in 1..Len(log) : log[i] = step

IsPrefix(s, t) == Len(s) <= Len(t) /\ \A i \in 1..Len(s) : s[i] = t[i]

\* line = a \o name \o b for some a and b
HasName(line, name) ==
    \E i \in 1..(Len(line) - Len(name) + 1) :
        \A k \in 1..Len(name) : line[i + k - 1] = name[k]

\* t is the first maximal run of non-whitespace characters of line
FirstTokenIs(line, t) ==
    \E i \in 1..Len(line) : \E j \in i..Len(line) :
        /\ \A k \in 1..(i - 1) : line[k] \in Whitespace
        /\ \A k \in i..j : line[k] \notin Whitespace
        /\ j = Len(line) \/ line[j + 1] \in Whitespace
        /\ Len(t) = j - i + 1
        /\ \A k \in 1..Len(t) : t[k] = line[i + k - 1]

\* The first line of the manifest that holds the name starts with the digest.
ManifestVouches(lines, name, digest) ==
    \E i \in 1..Len(lines) :
        /\ HasName(lines[i], name)
        /\ \A k \in 1..(i - 1) : ~HasName(lines[k], name)
        /\ FirstTokenIs(lines[i], digest)

HasSuffix(s, suf) ==
    /\ Len(s) >= Len(suf)
    /\ \A i \in 1..Len(suf) : s[Len(s) - Len(suf) + i] = suf[i]

Declared ==
    /\ plugin_name \in PluginNames
    /\ Truthy(get_plugin(plugin_name).checksum_filename_template)

CustomCopy == plugin_name \in PluginNames /\ get_plugin(plugin_name).custom_copy

PlacementBegun == InLog("place") \/ pc \in {"mkdir", "copy", "chmod", "done"} \/ root # root0

\* C1: with a checksum template declared, extraction and placement happen
\* only after verify_checksum returned true for the downloaded artifact in
\* this run, the manifest's first line naming the artifact carrying its
\* digest; and once the manifest step has run without such a manifest (its
\* download failed, it has no entry, the digest differs) the run has failed
\* with nothing extracted and installRoot untouched.
C1_ChecksumGate ==
    Declared =>
        /\ (InLog("extract") \/ extracted.how # "none" \/ PlacementBegun) =>
              /\ verified = "True"
              /\ InLog("verify")
              /\ ManifestVouches(manifest, format_kwargs.filename, artifact.digest)
        /\ ( /\ InLog("download_checksum")
             /\ pc # "verify"
             /\ ~ManifestVouches(manifest, format_kwargs.filename, artifact.digest) ) =>
              /\ pc = "failed"
              /\ extracted.how = "none"
              /\ ~InLog("extract")
              /\ root = root0

C1_Witness ==
    /\ Declared
    /\ pc = "done"
    /\ verified = "True"
    /\ root.file.content = "binary"

DefaultRun == pc # "idle" /\ ~CustomCopy

Installed(mode) ==
    [bin |-> TRUE, file |-> [present |-> TRUE, content |-> "binary", mode |-> mode]]

\* C2 as stated, for the default copy: a run ends with the binary installed
\* with mode 0o755, or failed with installRoot as it was before the run.
C2_AllOrNothing ==
    (DefaultRun /\ pc \in {"done", "failed"}) =>
        \/ pc = "done" /\ root = Installed("0o755")
        \/ pc = "failed" /\ root = root0

\* C2 as amended: a run with the default copy ends with the binary installed
\* with mode 0o755, or failed; installRoot is as it was when the failure came
\* before the copy (any run: before placement began), but a failed copy
\* leaves the bin directory, with the old file or a partly written one, and
\* a failed chmod leaves the copied binary with the mode it was extracted
\* with.
C2_Outcome ==
    /\ (DefaultRun /\ pc \in {"done", "failed"}) =>
          \/ pc = "done" /\ root = Installed("0o755")
          \/ /\ pc = "failed"
             /\ error \notin {"copy failed", "chmod failed"}
             /\ root = root0
          \/ /\ pc = "failed"
             /\ error = "copy failed"
             /\ root.bin
             /\ root.file = root0.file \/ root.file.content = "partial"
          \/ /\ pc = "failed"
             /\ error = "chmod failed"
             /\ root = Installed(extracted.mode)
    /\ (pc = "failed" /\ ~InLog("place")) => root = root0

C2_Witness ==
    /\ DefaultRun
    /\ pc = "done"
    /\ extracted.mode = "0o644"
    /\ ~root0.bin
    /\ root = Installed("0o755")

\* C3: when install_version has returned or raised, the temporary directory
\* it created is gone, whatever the step that ended the run; and every file
\* the run downloaded or extracted was written inside that directory, after
\* it was created.
C3_TmpReleased ==
    /\ pc \in {"done", "failed"} =>
          /\ tmp # "exists"
          /\ InLog("tmp") => tmp = "removed"
    /\ \A w \in written : w.root = "tmp"
    /\ (written # {} \/ artifact # NoArtifact \/ extracted.paths # {}) => InLog("tmp")
    /\ \A q \in extracted.paths : TmpPath(q) \in written
    /\ artifact # NoArtifact => TmpPath(format_kwargs.filename) \in written

C3_Witness ==
    /\ pc = "failed"
    /\ error = "FilterError"
    /\ tmp = "removed"
    /\ written # {}

\* C6: extraction goes by the suffix of the resolved filename alone:
\* ".tar.gz" is read as a tar archive into extract/, any other ".gz" is
\* gunzipped to the one file extract/<bin_path>, and any other name fails as
\* unsupported with nothing extracted, no placement step run and installRoot
\* untouched.
C6_SuffixDispatch ==
    /\ extracted.how # "none" => InLog("extract")
    /\ InLog("extract") =>
          IF HasSuffix(format_kwargs.filename, <<".", "t", "a", "r", ".", "g", "z">>)
          THEN /\ extracted.how = "tar"
               /\ \A q \in extracted.paths : IsPrefix(<<"e", "x", "t", "r", "a", "c", "t", "/">>, q)
               /\ artifact.kind = "tar" => error # "ReadError"
          ELSE IF HasSuffix(format_kwargs.filename, <<".", "g", "z">>)
          THEN /\ extracted.how = "gzip"
               /\ error # "BadGzipFile" => extracted.paths = { <<"e", "x", "t", "r", "a", "c", "t", "/">> \o bin_path }
          ELSE /\ pc = "failed"
               /\ error = "Unsupported file type"
               /\ extracted = NoExtract
               /\ ~InLog("place")
               /\ root = root0

C6_Witness ==
    /\ pc = "failed"
    /\ error = "Unsupported file type"
    /\ HasSuffix(format_kwargs.filename, <<".", "z", "i", "p">>)
    /\ verified = "True"

ExpectedOrder ==
    <<"filename", "checksum_filename", "bin_path", "tmp", "download">>
    \o (IF Declared THEN <<"download_checksum", "verify">> ELSE <<>>)
    \o <<"extract", "place">>

\* C9: the steps of a run are a prefix of the fixed order (the two checksum
\* steps only with a declared template), each at most once; each template is
\* resolved against the context the earlier ones filled in; a URL is
\* requested once per download step and never twice; a run that ended in
\* success ran every step, and a run that failed takes no further step.
C9_StepOrder ==
    pc # "idle" =>
        /\ IsPrefix(log, ExpectedOrder)
        /\ plugin_name \notin PluginNames => log = <<>>
        /\ InLog("checksum_filename") =>
              format_kwargs.checksum_filename =
                 format_template(get_plugin(plugin_name).checksum_filename_template,
                                 [format_kwargs EXCEPT !.checksum_filename = <<>>])
        /\ InLog("bin_path") =>
              bin_path = format_template(get_plugin(plugin_name).bin_path, format_kwargs)
        /\ Len(requests) =
              Cardinality({i \in 1..Len(log) : log[i] \in {"download", "download_checksum"}})
        /\ \A i, j \in 1..Len(requests) : requests[i] = requests[j] => i = j
        /\ InLog("download") => requests[1] = BinaryUrl(format_kwargs)
        /\ InLog("download_checksum") => requests[2] = ChecksumUrl(format_kwargs)
        /\ tmp = "exists" <=> (InLog("tmp") /\ pc \notin {"done", "failed"})
        /\ pc = "done" => log = ExpectedOrder
        /\ pc = "failed" => ~ENABLED InstallNext

C9_Witness ==
    /\ Declared
    /\ pc = "done"
    /\ Len(log) = 9
    /\ Len(requests) = 2

----------------------------------------------------------------------------
(* verify_checksum *)

\* C4: verify_checksum raises the entry-not-found error when no manifest
\* line holds the file's name, and otherwise returns true exactly when the
\* file's digest is the first whitespace-delimited token of the first line
\* that holds the name.
C4_VerifyChecksum ==
    v_result \notin {"idle", "pending"} =>
        LET hits == {i \in 1..Len(checksum_lines) : HasName(checksum_lines[i], file_name)}
        IN  IF hits = {}
            THEN v_result = "ChecksumNotFound"
            ELSE LET first == CHOOSE i \in hits : \A k \in hits : i <= k
                 IN  v_result = IF FirstTokenIs(checksum_lines[first], file_digest)
                                THEN "True" ELSE "False"

C4_Witness ==
    /\ v_result = "True"
    /\ Len(checksum_lines) = 2
    /\ HasName(checksum_lines[1], file_name)
    /\ HasName(checksum_lines[2], file_name)
    /\ ~FirstTokenIs(checksum_lines[2], file_digest)

----------------------------------------------------------------------------
(* list_version *)

\* The tag without its leading "v", if it has one.
StripOneV(t) == IF t # <<>> /\ t[1] = "v" THEN SubSeq(t, 2, Len(t)) ELSE t

\* The tag without any of its leading "v"s.
StripAllV(t) ==
    LET m == CHOOSE m \in 0..Len(t) :
                /\ \A k \in 1..m : t[k] = "v"
                /\ m < Len(t) => t[m + 1] # "v"
    IN  SubSeq(t, m + 1, Len(t))

\* The printed lines are min(10, n) versions, each the stripped tag of a
\* release of its own, ascending in publish time, and no release left out is
\* newer than one that is listed.
ListContract(strip) ==
    l_result.status = "ok" =>
        LET n == Len(releases)
            out == Split(l_result.out)
            Strip(t) == IF strip = "one v" THEN StripOneV(t) ELSE StripAllV(t)
            from(j) == {i \in 1..n : Strip(releases[i].tag_name) = out[j]}
        IN  /\ Len(out) = Min(10, n)
            /\ \A j \in 1..Len(out) : Cardinality(from(j)) = 1
            /\ Len(out) = Min(10, n) /\ (\A j \in 1..Len(out) : Cardinality(from(j)) = 1) =>
                  LET idx == [j \in 1..Len(out) |-> CHOOSE i \in from(j) : TRUE]
                      at(i) == releases[i].published_at
                  IN  /\ \A j, k \in 1..Len(out) : idx[j] = idx[k] => j = k
                      /\ \A j \in 1..(Len(out) - 1) : ~DtLess(at(idx[j + 1]), at(idx[j]))
                      /\ \A i \in 1..n :
                            (\A j \in 1..Len(out) : idx[j] # i) =>
                               \A j \in 1..Len(out) : ~DtLess(at(idx[j]), at(i))

\* C5 as stated: exactly one leading "v" is removed from each tag.
C5_StripsOneV == ListContract("one v")

\* C5 as amended: list_version returns, joined by newlines, the tags of the
\* min(10, n) releases with the latest published_at, ascending by publish
\* time, each tag with all of its leading "v" characters removed.
C5_RecentAscending == ListContract("every v")

C5_Witness ==
    /\ l_result.status = "ok"
    /\ Len(releases) > 10
    /\ Len(Split(l_result.out)) = 10
    /\ DtLess(releases[1].published_at, releases[2].published_at)
    /\ DtLess(releases[Len(releases)].published_at, releases[2].published_at)
    /\ DtLess(releases[4].published_at, releases[3].published_at)

----------------------------------------------------------------------------
(* main *)

WellFormedCommandLine ==
    \/ Len(argv) = 3 /\ argv[2] = "list"
    \/ Len(argv) = 5 /\ argv[2] = "install"

\* C7: a command line that is neither `list <plugin-name>` nor
\* `install <plugin-name> <version> <install-path>` gets the usage message
\* and a non-zero exit, and neither list_version nor install_version runs.
C7_UsageOnBadCommandLine ==
    (m_out.status = "done" /\ ~WellFormedCommandLine) =>
        /\ m_out.usage
        /\ m_out.exit # 0
        /\ m_out.called = "none"

----------------------------------------------------------------------------
(* The fd descriptor *)

\* C8: the version install_version puts in the URL and the filename, from
\* the line list_version printed for an upstream tag, is that tag again.
C8_RecoverYieldsTag ==
    (pc = "tmp" /\ plugin_name = "fd" /\ tag # <<>>) =>
        /\ format_kwargs.version = tag
        /\ BinaryUrl(format_kwargs).version = tag

\* C10: for fd the resolved filename is fd-<version>-<arch>-<mapped
\* platform>.tar.gz, and the binary path is that filename without its last
\* seven characters, the ".tar.gz", followed by "/fd".
C10_FdNames ==
    (pc = "tmp" /\ plugin_name = "fd") =>
        LET plat == IF Lower(system) = "darwin"
                    THEN <<"a", "p", "p", "l", "e", "-", "d", "a", "r", "w", "i", "n">> ELSE <<"u", "n", "k", "n", "o", "w", "n", "-", "l", "i", "n", "u", "x", "-", "g", "n", "u">>
            arch == IF machine \in {"x86_64", "AMD64"} THEN <<"x", "8", "6", "_", "6", "4">> ELSE <<"a", "a", "r", "c", "h", "6", "4">>
            fn == <<"f", "d", "-">> \o format_kwargs.version \o <<"-">> \o arch \o <<"-">> \o plat
                  \o <<".", "t", "a", "r", ".", "g", "z">>
        IN  /\ format_kwargs.version = normalize_version
            /\ format_kwargs.filename = fn
            /\ bin_path = SubSeq(fn, 1, Len(fn) - 7) \o <<"/", "f", "d">>

C10_Witness ==
    /\ pc = "tmp"
    /\ plugin_name = "fd"
    /\ system = "Linux"
    /\ machine = "arm64"
    /\ format_kwargs.version = <<"1", ".", "z">>

====
